---- MODULE Spec2Model ----
(***************************************************************************)
(* The RichTextEditor toolbar module of src/rich_text_editor/index.js:     *)
(* the closure state (config, toolbar, actions, lastEl), the public fields *)
(* (customRte, pfx, actionbar), and one action per method of the returned  *)
(* object, plus the event model's dispatch and the zero-delay timer that   *)
(* enable() arms.                                                          *)
(*                                                                         *)
(* JavaScript values: a possibly-undefined value is a sequence of length   *)
(* 0 (undefined / property absent) or 1 (the value).  Strings are strings, *)
(* numbers are integers, `${x}` and x + 'px' are computed by ToStr/ToPx.   *)
(***************************************************************************)
EXTENDS Integers, Sequences, FiniteSets, TLC

VARIABLES
  phase,      \* "new": object built by the factory; "ready": init() has run
  opts,       \* the options object as the caller passes it to init()
  defaults,   \* the object exported by ./config/config
  config,     \* closure variable config
  pfx,        \* this.pfx
  toolbar,    \* closure variable toolbar (the DOM element)
  actions,    \* closure variable actions
  alias,      \* which object the array held by actions also belongs to
  lastEl,     \* closure variable lastEl
  customRte,  \* this.customRte
  actionbar,  \* this.actionbar
  subs,       \* the event model's handler lists, per event name
  timers,     \* number of armed setTimeout(udpatePosition) callbacks
  call,       \* the most recent call or event: arguments, outcome, what it invoked
  hist        \* what the calls so far amount to (most recent completed call, ...)

vars == <<phase, opts, defaults, config, pfx, toolbar, actions, alias, lastEl,
          customRte, actionbar, subs, timers, call, hist>>

\* ------------------------------------------------------------------ bounds
MaxAdds   == 2   \* add() calls in a run
MaxViews  == 2   \* component views that can be edited
MaxTimers == 1   \* setTimeout callbacks pending at once

\* ------------------------------------------------------- JavaScript values
Undefined == <<>>
Some(v) == <<v>>
IsDef(o) == o # Undefined

\* `${o}` and string concatenation of a possibly-undefined string
ToStr(o) == IF IsDef(o) THEN o[1] ELSE "undefined"

\* n + 'px'
ToPx(n) == ToString(n) \o "px"

Names == {"stylePrefix", "pStylePrefix", "adjustToolbar", "actions", "em"}

\* the empty object {}
EmptyObject == [n \in Names |-> Undefined]

\* name in obj
In(name, obj) == IsDef(obj[name])

\* truthiness of obj[name], by the type of the option
Truthy(name, obj) ==
  /\ IsDef(obj[name])
  /\ CASE name \in {"stylePrefix", "pStylePrefix"} -> obj[name][1] # ""
       [] name = "adjustToolbar" -> obj[name][1] # 0
       [] name = "actions" -> ~obj[name][1].isNull
       [] name = "em" -> obj[name][1] # "null"

\* --------------------------------------------------------------- the views
Views == 1..MaxViews

\* view.el
ViewEl(view) == [kind |-> "el", of |-> view]

\* view.getChildrenContainer()
getChildrenContainer(view) == [kind |-> "container", of |-> view]

NoEl == [kind |-> "none", of |-> 0]

\* ------------------------------------------------------------ init helpers
\* variant: the defaults overwrite the caller's options
ApplyDefaultsOverride(o, d) ==
  [n \in Names |-> IF In(n, d) THEN d[n] ELSE o[n]]

\* for (let name in defaults) if (!(name in config)) config[name] = defaults[name]
ApplyDefaults(o, d) ==
  [n \in Names |-> IF In(n, d) /\ ~In(n, o) THEN d[n] ELSE o[n]]

\* if (ppfx) config.stylePrefix = ppfx + config.stylePrefix
PrefixStyle(c) ==
  IF Truthy("pStylePrefix", c)
    THEN [c EXCEPT !["stylePrefix"] = Some(c["pStylePrefix"][1] \o ToStr(c["stylePrefix"]))]
    ELSE c

\* config.actions || []
ActionList(c) == IF Truthy("actions", c) THEN c["actions"][1].list ELSE <<>>

\* which object owns the array that `actions` refers to after init
ActionAlias(o, c) ==
  IF ~Truthy("actions", c) THEN "fresh"
  ELSE IF In("actions", o) THEN "opts" ELSE "defaults"

NewToolbar(c) ==
  [className |-> ToStr(c["pStylePrefix"]) \o "rte-toolbar",
   display |-> "", top |-> "", left |-> "", pointerEvents |-> "",
   parent |-> "none", listeners |-> {"mousedown"}]

\* --------------------------------------------------------- the last call
NoPos == [top |-> 0, left |-> 0, canvasTop |-> 0, elementTop |-> 0, elementHeight |-> 0]

NoCall ==
  [op |-> "none", name |-> "", view |-> 0, rte |-> "", res |-> "ok", ret |-> "",
   backend |-> <<>>, pos |-> NoPos, posEl |-> NoEl, updates |-> 0, resub |-> FALSE]

NoHist ==
  [done |-> "none", enableEl |-> NoEl, prevEl |-> NoEl, withEm |-> FALSE, resub |-> FALSE,
   init0 |-> <<>>, added |-> <<>>]

\* ------------------------------------------------------------------- init
\* init(opts = {})
init ==
  /\ phase = "new"
  /\ LET c == PrefixStyle(ApplyDefaults(opts, defaults))
     IN /\ config' = c
        /\ pfx' = c["stylePrefix"]
        /\ actions' = Some(ActionList(c))
        /\ alias' = ActionAlias(opts, c)
        /\ toolbar' = Some(NewToolbar(c))
  /\ phase' = "ready"
  /\ call' = [NoCall EXCEPT !.op = "init", !.ret = "this"]
  /\ hist' = [hist EXCEPT !.init0 = ActionList(PrefixStyle(ApplyDefaults(opts, defaults)))]
  /\ UNCHANGED <<opts, defaults, lastEl, customRte, actionbar, subs, timers>>

\* postRender(ev): canvas.getToolsEl().appendChild(toolbar)
postRender ==
  /\ phase = "ready"
  /\ toolbar' = Some([toolbar[1] EXCEPT !.pointerEvents = "all", !.parent = "toolsEl"])
  /\ call' = [NoCall EXCEPT !.op = "postRender"]
  /\ UNCHANGED <<phase, opts, defaults, config, pfx, actions, alias, lastEl,
                 customRte, actionbar, subs, timers, hist>>

\* ---------------------------------------------------------------- actions
ActionNames == {"bold", "link"}

\* the opts argument of add: it may already carry a name, and carries the rest
AddOpts == [name : {Undefined, Some("old")}, rest : {"{}", "{icon,result}"}]

\* opts.name = name
NewAction(name, o) == [o EXCEPT !.name = Some(name)]

\* variant: the new action goes to the front of the list
Unshift(list, x) == <<x>> \o list

\* actions.push(opts)
Push(list, x) == Append(list, x)

\* an array shared with config.actions / defaults.actions is the same array
Shared(obj, list) == [obj EXCEPT !["actions"] = Some([isNull |-> FALSE, list |-> list])]

\* add(name, opts = {})
add(name, o) ==
  /\ phase = "ready"
  /\ Len(hist.added) < MaxAdds
  /\ LET list == Push(actions[1], NewAction(name, o))
     IN /\ actions' = Some(list)
        /\ config' = IF alias = "fresh" THEN config ELSE Shared(config, list)
        /\ defaults' = IF alias = "defaults" THEN Shared(defaults, list) ELSE defaults
  /\ call' = [NoCall EXCEPT !.op = "add", !.name = name]
  /\ hist' = [hist EXCEPT !.added = Append(@, [name |-> name, o |-> o])]
  /\ UNCHANGED <<phase, opts, pfx, toolbar, alias, lastEl, customRte, actionbar,
                 subs, timers>>

\* the identifiers the methods can resolve: the imports and the closure variables
Scope == {"RichTextEditor", "on", "off", "config", "defaults", "toolbar", "actions", "lastEl"}

\* evaluating an identifier: one that is declared nowhere raises ReferenceError
Resolve(id) == IF id \in Scope THEN "ok" ELSE "ReferenceError"

\* get(command): return commands.where({command})[0]
get(command) ==
  /\ phase = "ready"
  /\ call' = [NoCall EXCEPT !.op = "get", !.name = command, !.res = Resolve("commands"),
                            !.ret = IF Resolve("commands") = "ok" THEN "commands.where" ELSE ""]
  /\ UNCHANGED <<phase, opts, defaults, config, pfx, toolbar, actions, alias, lastEl,
                 customRte, actionbar, subs, timers, hist>>

\* getAll(): return commands
getAll ==
  /\ phase = "ready"
  /\ call' = [NoCall EXCEPT !.op = "getAll", !.res = Resolve("commands"),
                            !.ret = IF Resolve("commands") = "ok" THEN "commands" ELSE ""]
  /\ UNCHANGED <<phase, opts, defaults, config, pfx, toolbar, actions, alias, lastEl,
                 customRte, actionbar, subs, timers, hist>>

\* getToolbarEl(): return toolbar
getToolbarEl ==
  /\ phase = "ready"
  /\ call' = [NoCall EXCEPT !.op = "getToolbarEl", !.ret = "toolbar"]
  /\ UNCHANGED <<phase, opts, defaults, config, pfx, toolbar, actions, alias, lastEl,
                 customRte, actionbar, subs, timers, hist>>

\* ------------------------------------------------------- toolbar position
\* what canvas.getTargetToElementDim(toolbar, el, ...) can return: the toolbar's
\* target above, at and below the canvas's top edge, for two scroll offsets
PosSet == [top : 0..2, left : {0, 7}, canvasTop : {1}, elementTop : {3},
           elementHeight : {2}]

\* variant: the toolbar moves down only when strictly above the canvas's top edge
AdjustTopStrict(pos, adjust) ==
  IF adjust /\ pos.top < pos.canvasTop THEN pos.elementTop + pos.elementHeight ELSE pos.top

\* if (config.adjustToolbar) if (pos.top <= pos.canvasTop) pos.top = elementTop + elementHeight
AdjustTop(pos, adjust) ==
  IF adjust /\ pos.top <= pos.canvasTop THEN pos.elementTop + pos.elementHeight ELSE pos.top

\* udpatePosition(), with pos the canvas's answer for lastEl
udpatePosition(tb, pos) ==
  [tb EXCEPT !.top = ToPx(AdjustTop(pos, Truthy("adjustToolbar", config))),
             !.left = ToPx(pos.left)]

\* --------------------------------------------------------- the event model
Events == {"change:canvasOffset", "canvasScroll"}

\* the handler enable() registers: this.udpatePosition with context this
Handler == [callback |-> "udpatePosition", context |-> "this"]

\* variant: em.off removes nothing
KeepHandlers(s, h) == s

\* em.off(event, callback, context): drop every matching handler of both events
em_off(s, h) == [e \in Events |-> SelectSeq(s[e], LAMBDA x : x # h)]

\* em.on(event, callback, context): add the handler to both events
em_on(s, h) == [e \in Events |-> Append(s[e], h)]

\* em.trigger(e): every handler registered for e runs
trigger(e, pos) ==
  /\ phase = "ready"
  /\ Truthy("em", config)
  /\ LET n == Len(subs[e])
     IN /\ toolbar' = IF n > 0 THEN Some(udpatePosition(toolbar[1], pos)) ELSE toolbar
        /\ call' = [NoCall EXCEPT !.op = "trigger", !.name = e, !.updates = n,
                                  !.pos = IF n > 0 THEN pos ELSE NoPos,
                                  !.posEl = IF n > 0 THEN lastEl[1] ELSE NoEl]
  /\ UNCHANGED <<phase, opts, defaults, config, pfx, actions, alias, lastEl,
                 customRte, actionbar, subs, timers, hist>>

\* the callback of setTimeout(this.udpatePosition.bind(this), 0) runs
timeout(pos) ==
  /\ timers > 0
  /\ timers' = timers - 1
  /\ toolbar' = Some(udpatePosition(toolbar[1], pos))
  /\ call' = [NoCall EXCEPT !.op = "timeout", !.updates = 1, !.pos = pos,
                            !.posEl = lastEl[1]]
  /\ UNCHANGED <<phase, opts, defaults, config, pfx, actions, alias, lastEl,
                 customRte, actionbar, subs, hist>>

\* ------------------------------------------------------ enable / disable
\* RTE instances the backends hand out
Rtes == {"rte1", "rte2"}

\* what the caller passes as rte
RteArgs == {"rte1", "undefined"}

\* what customRte.enable(el, rte) does: returns an instance, returns nothing, or throws
CustomResults == Rtes \cup {"undefined", "throw"}

\* rte.actionbar of an instance
ActionbarOf(r) == IF r = "rte1" THEN Some("bar1") ELSE Undefined

NoClasses == [actionbar |-> "", button |-> ""]

NoBackend ==
  [fn |-> "", el |-> NoEl, rte |-> "", bar |-> Undefined, classes |-> NoClasses,
   answer |-> ""]

\* variant: lastEl is set by the first enable only
TrackFirstEl(view, prev) == IF IsDef(prev) THEN prev ELSE Some(ViewEl(view))

\* lastEl = view.el
TrackEl(view, prev) == Some(ViewEl(view))

\* variant: enable ignores customRte
EnableBackendBuiltin(custom, view, rte, r) ==
  [NoBackend EXCEPT !.fn = "new RichTextEditor().enable", !.answer = r,
                    !.el = getChildrenContainer(view), !.bar = actionbar,
                    !.classes = [actionbar |-> ToStr(pfx) \o "actionbar",
                                 button |-> ToStr(pfx) \o "action"]]

\* rte = customRte ? customRte.enable(el, rte) : new RichTextEditor({...}).enable()
EnableBackend(custom, view, rte, r) ==
  IF custom
    THEN [NoBackend EXCEPT !.fn = "customRte.enable", !.el = getChildrenContainer(view),
                           !.rte = rte, !.answer = r]
    ELSE [NoBackend EXCEPT !.fn = "new RichTextEditor().enable", !.answer = r,
                           !.el = getChildrenContainer(view), !.bar = actionbar,
                           !.classes = [actionbar |-> ToStr(pfx) \o "actionbar",
                                        button |-> ToStr(pfx) \o "action"]]

\* enable(view, rte); r is what the backend answers
enable(view, rte, r) ==
  /\ phase = "ready"
  /\ LET custom == customRte # "null"
         em == Truthy("em", config)
         res == IF r = "throw" THEN "Error"
                ELSE IF r = "undefined" THEN "TypeError" ELSE "ok"
         done == res = "ok"
     IN /\ ~custom => r \in Rtes
        /\ (done /\ em) => timers < MaxTimers
        /\ lastEl' = TrackEl(view, lastEl)
        /\ toolbar' = Some([toolbar[1] EXCEPT !.display = ""])
        /\ actionbar' = IF done /\ IsDef(ActionbarOf(r)) THEN ActionbarOf(r) ELSE actionbar
        /\ timers' = IF done /\ em THEN timers + 1 ELSE timers
        /\ subs' = IF done /\ em THEN em_on(em_off(subs, Handler), Handler) ELSE subs
        /\ call' = [NoCall EXCEPT !.op = "enable", !.view = view, !.rte = rte, !.res = res,
                                  !.ret = IF done THEN r ELSE "",
                                  !.backend = <<EnableBackend(custom, view, rte, r)>>,
                                  !.resub = done /\ em /\ hist.withEm]
        /\ hist' = [hist EXCEPT !.done = IF done THEN "enable" ELSE @,
                                !.enableEl = ViewEl(view),
                                !.prevEl = hist.enableEl,
                                !.withEm = @ \/ (done /\ em),
                                !.resub = @ \/ (done /\ em /\ hist.withEm)]
  /\ UNCHANGED <<phase, opts, defaults, config, pfx, actions, alias, customRte>>

\* if (customRte) customRte.disable(el, rte) else rte.disable()
DisableBackend(custom, view, rte, r) ==
  IF custom
    THEN <<[NoBackend EXCEPT !.fn = "customRte.disable", !.el = getChildrenContainer(view),
                             !.rte = rte, !.answer = r]>>
    ELSE IF rte = "undefined" THEN <<>>
    ELSE <<[NoBackend EXCEPT !.fn = "rte.disable", !.rte = rte, !.answer = r]>>

\* variant: disable also unsubscribes udpatePosition
disableAndUnsubscribe(view, rte, r) ==
  /\ phase = "ready"
  /\ LET custom == customRte # "null"
         res == IF ~custom /\ rte = "undefined" THEN "TypeError"
                ELSE IF r = "throw" THEN "Error" ELSE "ok"
         done == res = "ok"
     IN /\ toolbar' = IF done THEN Some([toolbar[1] EXCEPT !.display = "none"]) ELSE toolbar
        /\ subs' = IF done THEN em_off(subs, Handler) ELSE subs
        /\ call' = [NoCall EXCEPT !.op = "disable", !.view = view, !.rte = rte, !.res = res,
                                  !.backend = DisableBackend(custom, view, rte, r)]
        /\ hist' = [hist EXCEPT !.done = IF done THEN "disable" ELSE @]
  /\ UNCHANGED <<phase, opts, defaults, config, pfx, actions, alias, lastEl, customRte,
                 actionbar, timers>>

\* disable(view, rte); r is what the backend does: returns ("ok") or throws
disable(view, rte, r) ==
  /\ phase = "ready"
  /\ LET custom == customRte # "null"
         res == IF ~custom /\ rte = "undefined" THEN "TypeError"
                ELSE IF r = "throw" THEN "Error" ELSE "ok"
         done == res = "ok"
     IN /\ toolbar' = IF done THEN Some([toolbar[1] EXCEPT !.display = "none"]) ELSE toolbar
        /\ call' = [NoCall EXCEPT !.op = "disable", !.view = view, !.rte = rte, !.res = res,
                                  !.backend = DisableBackend(custom, view, rte, r)]
        /\ hist' = [hist EXCEPT !.done = IF done THEN "disable" ELSE @]
  /\ UNCHANGED <<phase, opts, defaults, config, pfx, actions, alias, lastEl, customRte,
                 actionbar, subs, timers>>

\* the host assigns the public field: rte.customRte = obj (or null again)
setCustomRte(v) ==
  /\ customRte # v
  /\ customRte' = v
  /\ call' = [NoCall EXCEPT !.op = "setCustomRte"]
  /\ UNCHANGED <<phase, opts, defaults, config, pfx, toolbar, actions, alias, lastEl,
                 actionbar, subs, timers, hist>>

\* ------------------------------------------------------- specifications
\* the state the factory returns: nothing initialised, customRte: null
Built ==
  /\ phase = "new"
  /\ config = EmptyObject
  /\ pfx = Undefined
  /\ toolbar = Undefined
  /\ actions = Undefined
  /\ alias = "fresh"
  /\ lastEl = Undefined
  /\ customRte = "null"
  /\ actionbar = Undefined
  /\ subs = [e \in Events |-> <<>>]
  /\ timers = 0
  /\ call = NoCall
  /\ hist = NoHist

StringItem(s) == [name |-> Undefined, rest |-> s]

ListValue(l) == Some([isNull |-> FALSE, list |-> l])

NullValue == Some([isNull |-> TRUE, list |-> <<>>])

\* a value of the object exported by ./config/config (init is checked over AnyDefaults)
SampleDefaults ==
  [EmptyObject EXCEPT !["stylePrefix"] = Some("rte-"), !["adjustToolbar"] = Some(1),
                      !["actions"] = ListValue(<<StringItem("bold"), StringItem("link")>>)]

\* the options the editor passes: its prefix, its event model, the user's settings
EditorOpts ==
  {[EmptyObject EXCEPT !["pStylePrefix"] = Some("gjs-"), !["em"] = em,
                       !["adjustToolbar"] = adj] :
     em \in {Undefined, Some("em")}, adj \in {Undefined, Some(0)}}

\* the options of a host that configures the toolbar's actions
ActionOpts ==
  {[EmptyObject EXCEPT !["actions"] = acts] :
     acts \in {Undefined, NullValue, ListValue(<<>>), ListValue(<<StringItem("italic")>>)}}

Init ==
  /\ Built
  /\ opts \in EditorOpts
  /\ defaults = SampleDefaults

Next ==
  \/ init
  \/ postRender
  \/ getToolbarEl
  \/ \E view \in Views, rte \in RteArgs, r \in CustomResults : enable(view, rte, r)
  \/ \E view \in Views, rte \in RteArgs, r \in {"ok", "throw"} : disable(view, rte, r)
  \/ \E v \in {"null", "custom"} : setCustomRte(v)
  \/ \E e \in Events, pos \in PosSet : trigger(e, pos)
  \/ \E pos \in PosSet : timeout(pos)

Spec == Init /\ [][Next]_vars

\* the action list and its accessors
InitActions ==
  /\ Built
  /\ opts \in ActionOpts
  /\ defaults = SampleDefaults

NextActions ==
  \/ init
  \/ \E name \in ActionNames, o \in AddOpts : add(name, o)
  \/ \E command \in ActionNames : get(command)
  \/ getAll

SpecActions == InitActions /\ [][NextActions]_vars

\* init() alone, over every shape of options and defaults
AnyOpts ==
  {[n \in Names |-> CASE n = "stylePrefix" -> sp [] n = "pStylePrefix" -> pp
                       [] n = "adjustToolbar" -> adj [] n = "actions" -> acts
                       [] n = "em" -> em] :
     sp \in {Undefined, Some(""), Some("x-")},
     pp \in {Undefined, Some(""), Some("gjs-")},
     adj \in {Undefined, Some(0), Some(2)},
     acts \in {Undefined, NullValue, ListValue(<<>>), ListValue(<<StringItem("italic")>>)},
     em \in {Undefined, Some("null"), Some("em")}}

AnyDefaults ==
  {[n \in Names |-> CASE n = "stylePrefix" -> sp [] n = "pStylePrefix" -> pp
                       [] n = "adjustToolbar" -> adj [] n = "actions" -> acts
                       [] n = "em" -> Undefined] :
     sp \in {Undefined, Some("rte-")},
     pp \in {Undefined, Some("d-")},
     adj \in {Undefined, Some(1)},
     acts \in {Undefined, ListValue(<<StringItem("bold"), StringItem("link")>>)}}

InitAny ==
  /\ Built
  /\ opts \in AnyOpts
  /\ defaults \in AnyDefaults

NextInit == init

SpecInit == InitAny /\ [][NextInit]_vars

\* ------------------------------------------------------------ the claims
\* init() has run
Ready == phase = "ready"

\* the entry add(name, o) is to leave in the list: o with its name set to name
Entry(a) == [name |-> Some(a.name), rest |-> a.o.rest]

C2_GetReturns == call.op \in {"get", "getAll"} => call.res = "ok"

\* C3: the toolbar's display is '' if the most recent completed call among
\* enable/disable was enable, and 'none' if it was disable.
C3_ShownWhileEditing ==
  /\ hist.done = "enable" => toolbar[1].display = ""
  /\ hist.done = "disable" => toolbar[1].display = "none"

\* the toolbar's style holds a position computed from pos
PlacedFrom(pos) ==
  /\ toolbar[1].left = ToPx(pos.left)
  /\ toolbar[1].top \in {ToPx(pos.top), ToPx(pos.elementTop + pos.elementHeight)}

ContainerOf(view) == [kind |-> "container", of |-> view]

Merged(n) == IF IsDef(opts[n]) THEN opts[n] ELSE defaults[n]

\* C6: after init every option present in opts keeps the caller's value, every
\* other option of the defaults takes the default, stylePrefix is prefixed once
\* with a non-empty pStylePrefix, and the action list is config.actions when
\* that is truthy and empty otherwise.
C6_InitConfig ==
  Ready =>
    /\ \A n \in Names \ {"stylePrefix"} : config[n] = Merged(n)
    /\ LET ppfx == Merged("pStylePrefix")
       IN IF IsDef(ppfx) /\ ppfx[1] # ""
            THEN config["stylePrefix"] = Some(ppfx[1] \o ToStr(Merged("stylePrefix")))
            ELSE config["stylePrefix"] = Merged("stylePrefix")
    /\ pfx = config["stylePrefix"]
    /\ IF IsDef(config["actions"]) /\ ~config["actions"][1].isNull
         THEN actions = Some(config["actions"][1].list)
         ELSE actions = Some(<<>>)

C6_Witness ==
  /\ Ready
  /\ opts["adjustToolbar"] = Some(0)
  /\ defaults["adjustToolbar"] = Some(1)
  /\ opts["pStylePrefix"] = Some("gjs-")
  /\ opts["stylePrefix"] = Undefined
  /\ config["stylePrefix"] = Some("gjs-rte-")
  /\ opts["actions"] = NullValue
  /\ actions = Some(<<>>)

\* config.adjustToolbar is set
AdjustSet == IsDef(config["adjustToolbar"]) /\ config["adjustToolbar"][1] # 0

\* C7: a position update sets left to the computed left, and top to
\* elementTop + elementHeight when adjustToolbar is set and the computed top is
\* <= canvasTop, to the computed top otherwise.
C7_Placement ==
  call.updates > 0 =>
    /\ toolbar[1].left = ToPx(call.pos.left)
    /\ toolbar[1].top =
         (IF AdjustSet /\ call.pos.top <= call.pos.canvasTop
            THEN ToPx(call.pos.elementTop + call.pos.elementHeight)
            ELSE ToPx(call.pos.top))

C7_Witness ==
  /\ call.updates > 0
  /\ AdjustSet
  /\ call.pos.top = call.pos.canvasTop
  /\ toolbar[1].top = "5px"
  /\ toolbar[1].left = "7px"

\* C8: udpatePosition is registered at most once per event, however many enable
\* calls there were, so one event triggers exactly one position update.
C8_SubscribedOnce ==
  /\ \A e \in Events : Len(subs[e]) <= 1
  /\ call.op = "trigger" => call.updates = (IF hist.withEm THEN 1 ELSE 0)

C8_Witness ==
  /\ call.op = "trigger"
  /\ hist.resub
  /\ hist.done = "disable"
  /\ call.updates = 1

\* C9: a disable call leaves the action list, lastEl, the stored actionbar and
\* the subscriptions unchanged, so an event after disable still runs
\* udpatePosition once, against the last edited element.
C9_DisableFrame ==
  [][/\ call'.op = "disable" =>
          /\ actions' = actions
          /\ lastEl' = lastEl
          /\ actionbar' = actionbar
          /\ subs' = subs
          /\ config' = config
     /\ (call'.op = "trigger" /\ hist'.withEm /\ hist'.done = "disable") =>
          /\ call'.updates = 1
          /\ call'.posEl = lastEl'[1]]_vars

C9_Witness ==
  /\ call.op = "trigger"
  /\ hist.done = "disable"
  /\ toolbar[1].display = "none"
  /\ call.updates = 1
  /\ call.posEl = lastEl[1]

====
